---- MODULE Spec2Model ----
(***************************************************************************)
(* Model of main.py: the vehicle fleet (Vehicle, user_location, vehicles), *)
(* the ConnectionManager (active_connections, connect, disconnect,         *)
(* broadcast), the vehicle_simulation task and one websocket_endpoint task *)
(* per client.  asyncio runs one task at a time; a task gives up control   *)
(* only at an await, so every action below is the code between two awaits. *)
(*                                                                         *)
(* Floats are modelled on an integer grid: one unit is 0.0225 degrees, so  *)
(* max_distance (0.09) is 4 units and radius_deg (5/111.0) is 2 units.     *)
(* Headings are multiples of 30 degrees: the grid stands for the floats,   *)
(* so the result of a float operation on headings is rounded to the grid.  *)
(***************************************************************************)
EXTENDS Integers, Sequences, FiniteSets, TLC

\* ---- bounds ----
NumChan == 2            \* number of client connections over a run
FleetCount == 2         \* count of create_vehicles_around_location (10 in the code)
MaxSent == 2            \* payloads one client sends over its connection
MaxCount == 5           \* largest count given to create_vehicles_around_location alone

\* ---- program constants, in grid units ----
DefaultLat == 1116      \* user_location["lat"] = 25.1
DefaultLng == 5402      \* user_location["lng"] = 121.55
MaxDistance == 4        \* max_distance = 0.09
RadiusDeg == 2          \* radius_km / 111.0 with radius_km = 5
SpeedScale == 40        \* speed / 111000 / 3600: degrees moved per tick
SpeedMin == 40          \* random.uniform(40, 80)
SpeedMax == 80
MaxPerturb == 30        \* random.uniform(-30, 30)
MinPerturb == 1         \* a draw of random.uniform(-30, 30) close to 0

Sim == 0
Chan == 1..NumChan
Tasks == {Sim} \cup Chan

VARIABLES
  active_connections,   \* ConnectionManager.active_connections: list of channels
  user_location,        \* the global dict {"lat":, "lng":}
  vehicles,             \* the global list of Vehicle objects
  pc,                   \* pc[t]: the await at which task t is suspended
  exc,                  \* exc[t]: the exception that ended task t, or "none"
  cstate,               \* cstate[c]: transport of client c: "new", "open",
                        \* "stalled" (open, the client reads no more), "closed"
  call,                 \* call[t]: the frame of task t's broadcast call in progress
  sent,                 \* sent[c]: number of payloads client c has sent so far
  pending,              \* pending[c]: the tasks suspended in a send_text on
                        \* connection c, in the order of their calls
  gen                   \* history: gen.fleet counts the regenerations, gen.msg[t] is
                        \* the count when the message of task t's broadcast was
                        \* built, gen.seen[c] the count of the last
                        \* location_updated that client c received

vars == <<active_connections, user_location, vehicles, pc, exc, cstate, call, sent,
          pending, gen>>

\* ---- JSON values of the lat / lng members of an inbound message ----
None == [t |-> "none", n |-> 0]          \* member missing: dict.get returns None
Bad == [t |-> "str", n |-> 0]            \* a non-empty string such as "bad"
Num(n) == [t |-> "num", n |-> n]
IsNum(v) == v.t = "num"
\* Python truth value, as tested by `if new_lat and new_lng`
Truthy(v) == v.t = "str" \/ (v.t = "num" /\ v.n # 0)

NumericInputs == {0, -40}
JVals == {None, Bad} \cup {Num(n) : n \in NumericInputs}

\* inbound payloads: not JSON, JSON but not an object, or an object
Messages ==
  {[kind |-> "garbage", type |-> "none", lat |-> None, lng |-> None],
   [kind |-> "nonobject", type |-> "none", lat |-> None, lng |-> None],
   [kind |-> "object", type |-> "other", lat |-> None, lng |-> None]}
  \cup {[kind |-> "object", type |-> "user_location", lat |-> a, lng |-> b] :
          a \in JVals, b \in JVals}

\* ---- list helpers ----
Range(s) == {s[i] : i \in 1..Len(s)}

IndexOf(s, x) == CHOOSE i \in 1..Len(s) : s[i] = x /\ \A j \in 1..(i - 1) : s[j] # x

\* list.remove(x) for x in the list: drops the first occurrence
ListRemove(s, x) ==
  LET k == IndexOf(s, x)
  IN [i \in 1..(Len(s) - 1) |-> IF i < k THEN s[i] ELSE s[i + 1]]

\* ---- Vehicle ----
Statuses == {"available", "busy", "offline"}
Headings == {30 * k : k \in 0..11}

\* 2 * cos and 2 * sin of a heading, rounded to the grid
Cos2(d) ==
  CASE d = 0 -> 2 [] d = 30 -> 2 [] d = 60 -> 1 [] d = 90 -> 0
    [] d = 120 -> -1 [] d = 150 -> -2 [] d = 180 -> -2 [] d = 210 -> -2
    [] d = 240 -> -1 [] d = 270 -> 0 [] d = 300 -> 1 [] d = 330 -> 2
    [] d = 360 -> 2

Sin2(d) == Cos2((d + 270) % 360)

\* x % 360 on floats: the remainder of the division takes the sign of 360, and
\* the result is rounded to the nearest float: a negative x close to 0 gives
\* 360.0, not a value below 360
PyMod360(x) == (((x % 360) + 15) \div 30) * 30

\* the id of a loop `for i in range(count)`
VehicleId_FromZero(i) == <<((i - 1) \div 100) % 10, ((i - 1) \div 10) % 10, (i - 1) % 10>>

\* f"UBER-{i:03d}"
VehicleId(i) == <<(i \div 100) % 10, (i \div 10) % 10, i % 10>>

\* the random draws of one run of the program
AllDraws ==
  [offs |-> {o \in (-RadiusDeg..RadiusDeg) \X (-RadiusDeg..RadiusDeg) :
               o[1] * o[1] + o[2] * o[2] <= RadiusDeg * RadiusDeg},
   speeds |-> {SpeedMin, SpeedMax},
   dirs |-> Headings,
   stats |-> Statuses,
   perturb |-> {-MaxPerturb, -MinPerturb, 0, MinPerturb, MaxPerturb},
   respeed |-> {0, SpeedMin, SpeedMax},
   restatus |-> {"keep"} \cup Statuses]

\* one draw of each: the fleet moves on a fixed course
FixedDraws ==
  [offs |-> {<<0, 0>>},
   speeds |-> {SpeedMax},
   dirs |-> {0},
   stats |-> {"available"},
   perturb |-> {0},
   respeed |-> {0},
   restatus |-> {"keep"}]

\* Vehicle.__init__
NewVehicle(id, lat, lng, speed, direction, status) ==
  [id |-> id, lat |-> lat, lng |-> lng, speed |-> speed,
   direction |-> direction, status |-> status]

\* is (lat, lng) farther than max_distance from the numeric location ref
TooFar(lat, lng, ref) ==
  LET lat_diff == lat - ref.lat.n
      lng_diff == lng - ref.lng.n
  IN lat_diff * lat_diff + lng_diff * lng_diff > MaxDistance * MaxDistance

\* update_position that gives the moved vehicle the id of a new one
update_position_NewId(v, ref, d, sp, st) ==
  [id |-> VehicleId(0), lat |-> v.lat, lng |-> v.lng, speed |-> v.speed,
   direction |-> v.direction, status |-> v.status]

\* update_position that reverses the heading at the boundary and moves anyway
update_position_NoSkip(v, ref, d, sp, st) ==
  LET speed_deg == v.speed \div SpeedScale
      direction == PyMod360(v.direction + d)
      new_lat == v.lat + speed_deg * Cos2(direction)
      new_lng == v.lng + speed_deg * Sin2(direction)
      far == TooFar(new_lat, new_lng, ref)
  IN [id |-> v.id, lat |-> new_lat, lng |-> new_lng,
      speed |-> IF sp = 0 THEN v.speed ELSE sp,
      direction |-> IF far THEN PyMod360(direction + 180) ELSE direction,
      status |-> IF st = "keep" THEN v.status ELSE st]

\* Vehicle.update_position with a numeric user_location; d is the heading
\* perturbation, sp the redrawn speed (0: kept), st the redrawn status
update_position(v, ref, d, sp, st) ==
  LET speed_deg == v.speed \div SpeedScale
      direction == PyMod360(v.direction + d)
      new_lat == v.lat + speed_deg * Cos2(direction)
      new_lng == v.lng + speed_deg * Sin2(direction)
      far == TooFar(new_lat, new_lng, ref)
  IN [id |-> v.id,
      lat |-> IF far THEN v.lat ELSE new_lat,
      lng |-> IF far THEN v.lng ELSE new_lng,
      speed |-> IF sp = 0 THEN v.speed ELSE sp,
      direction |-> IF far THEN PyMod360(direction + 180) ELSE direction,
      status |-> IF st = "keep" THEN v.status ELSE st]

\* create_vehicles_around_location(lat, lng, count) for numeric lat, lng: every
\* fleet the draws D can produce
create_vehicles_around_location(lat, lng, count, D) ==
  LET Choice == D.offs \X D.speeds \X D.dirs \X D.stats
  IN {[i \in 1..count |->
         NewVehicle(VehicleId(i), lat + ch[i][1][1], lng + ch[i][1][2],
                    ch[i][2], ch[i][3], ch[i][4])] :
        ch \in [1..count -> Choice]}

\* Vehicle.to_dict: a copy of the fields; round(x, 6) and round(x, 1) keep every
\* grid value, and the timestamp is left out
to_dict(v) ==
  [id |-> v.id, lat |-> v.lat, lng |-> v.lng, speed |-> v.speed,
   direction |-> v.direction, status |-> v.status]

\* [vehicle.to_dict() for vehicle in vehicles]
Snapshot(vs) == [i \in 1..Len(vs) |-> to_dict(vs[i])]

NoLoc == [lat |-> None, lng |-> None]
NoMsg == [type |-> "none", vehicles |-> <<>>, user_location |-> NoLoc]

\* ---- ConnectionManager.broadcast ----
NoCall ==
  [active |-> FALSE, it |-> 0, cur |-> 0, msg |-> NoMsg, start |-> <<>>,
   delivered |-> {}, quiet |-> TRUE]

\* the for statement asks the list iterator for the next connection: the
\* iterator keeps an index into the list as it is now
ForNext(f, conns) ==
  IF f.it < Len(conns)
  THEN [f EXCEPT !.it = f.it + 1, !.cur = conns[f.it + 1]]
  ELSE NoCall

\* broadcast(message) up to its first await
BeginBroadcast(msg, conns) ==
  ForNext([active |-> TRUE, it |-> 0, cur |-> 0, msg |-> msg, start |-> conns,
           delivered |-> {}, quiet |-> TRUE], conns)

\* a connection that serves the latest send_text call first
Enqueue_Front(p, f, t) == IF f.active THEN [p EXCEPT ![f.cur] = <<t>> \o @] ELSE p

\* a connection carries its sends in the order of the send_text calls: task t
\* calls send_text on the connection of frame f
Enqueue(p, f, t) == IF f.active THEN [p EXCEPT ![f.cur] = Append(@, t)] ELSE p

\* the oldest send_text on connection c completes
Dequeue(p, c) == [p EXCEPT ![c] = Tail(@)]

\* the history when task t's broadcast call of a message built from fleet
\* number n is at frame f
GenCall(h, f, t, n) == [h EXCEPT !.msg[t] = IF f.active THEN n ELSE 0]

\* the history when task t's message has been delivered to client c
GenDelivered(h, f, t, c) ==
  IF f.msg.type = "location_updated" /\ h.msg[t] > h.seen[c]
  THEN [h EXCEPT !.seen[c] = h.msg[t]] ELSE h

\* another task changed the registry or a transport while a call is suspended
Disturb(calls, t) ==
  [u \in Tasks |-> IF u # t /\ calls[u].active
                   THEN [calls[u] EXCEPT !.quiet = FALSE] ELSE calls[u]]

\* where a task continues when its broadcast call returns
AfterBroadcast(t) == IF t = Sim THEN "sleep" ELSE "receive"

Init ==
  /\ active_connections = <<>>
  /\ user_location = [lat |-> Num(DefaultLat), lng |-> Num(DefaultLng)]
  /\ vehicles \in create_vehicles_around_location(DefaultLat, DefaultLng, FleetCount, FixedDraws)
  /\ pc = [t \in Tasks |-> IF t = Sim THEN "sleep" ELSE "idle"]
  /\ exc = [t \in Tasks |-> "none"]
  /\ cstate = [c \in Chan |-> "new"]
  /\ call = [t \in Tasks |-> NoCall]
  /\ sent = [c \in Chan |-> 0]
  /\ pending = [c \in Chan |-> <<>>]
  /\ gen = [fleet |-> 0, msg |-> [t \in Tasks |-> 0], seen |-> [c \in Chan |-> 0]]

\* ---- the clients ----

\* a connect that registers the connection before it is accepted
ClientConnect_Register(c) ==
  /\ pc[c] = "idle"
  /\ pc' = [pc EXCEPT ![c] = "accept"]
  /\ cstate' = [cstate EXCEPT ![c] = "open"]
  /\ active_connections' = Append(active_connections, c)
  /\ UNCHANGED <<user_location, vehicles, exc, call, sent, pending, gen>>

\* a client opens a connection: the server starts websocket_endpoint, which
\* suspends in manager.connect at `await websocket.accept()`
ClientConnect(c) ==
  /\ pc[c] = "idle"
  /\ pc' = [pc EXCEPT ![c] = "accept"]
  /\ cstate' = [cstate EXCEPT ![c] = "open"]
  /\ UNCHANGED <<active_connections, user_location, vehicles, exc, call, sent, pending, gen>>

\* a client goes away: from now on a send to it fails and a receive raises
\* WebSocketDisconnect
ClientClose(c) ==
  /\ cstate[c] \in {"open", "stalled"}
  /\ cstate' = [cstate EXCEPT ![c] = "closed"]
  /\ call' = Disturb(call, -1)
  /\ UNCHANGED <<active_connections, user_location, vehicles, pc, exc, sent, pending, gen>>

\* a client stops reading and its connection fills up: from now on a
\* send_text to it stays suspended (send_text has no timeout)
ClientStall(c) ==
  /\ cstate[c] = "open"
  /\ cstate' = [cstate EXCEPT ![c] = "stalled"]
  /\ call' = Disturb(call, -1)
  /\ UNCHANGED <<active_connections, user_location, vehicles, pc, exc, sent, pending, gen>>

\* ---- websocket_endpoint ----

\* an exception that no except clause of websocket_endpoint catches ends the
\* task; the server then closes the connection
HandlerRaise(c, e) ==
  /\ pc' = [pc EXCEPT ![c] = "raised"]
  /\ exc' = [exc EXCEPT ![c] = e]
  /\ cstate' = [cstate EXCEPT ![c] = "closed"]

\* ConnectionManager.disconnect, called from `except WebSocketDisconnect`:
\* list.remove raises ValueError when the connection is not in the list
disconnect(c) ==
  /\ IF c \in Range(active_connections)
     THEN /\ active_connections' = ListRemove(active_connections, c)
          /\ pc' = [pc EXCEPT ![c] = "returned"]
          /\ exc' = exc
          /\ cstate' = [cstate EXCEPT ![c] = "closed"]
     ELSE /\ active_connections' = active_connections
          /\ HandlerRaise(c, "ValueError")
  /\ call' = Disturb([call EXCEPT ![c] = NoCall], c)
  /\ UNCHANGED <<user_location, vehicles, sent, gen>>

InitialData ==
  [type |-> "initial_data", vehicles |-> Snapshot(vehicles),
   user_location |-> user_location]

\* ConnectionManager.connect after accept, then the code up to
\* `await websocket.send_text(json.dumps(initial_data))`
AcceptDone(c) ==
  /\ pc[c] = "accept"
  /\ IF cstate[c] = "open"
     THEN /\ active_connections' = Append(active_connections, c)
          /\ pc' = [pc EXCEPT ![c] = "send_initial"]
          /\ call' = Disturb([call EXCEPT ![c] = [NoCall EXCEPT !.msg = InitialData]], c)
          /\ pending' = [pending EXCEPT ![c] = Append(@, c)]
          /\ UNCHANGED <<exc, cstate>>
     ELSE /\ HandlerRaise(c, "TransportError")
          /\ UNCHANGED <<active_connections, call, pending>>
  /\ UNCHANGED <<user_location, vehicles, sent, gen>>

\* the send of initial_data completes.  A send to a closed connection raises;
\* which exception depends on the server library: WebSocketDisconnect (e = 1),
\* handled by the except clause, or another one (e = 0)
InitialSent(c, e) ==
  /\ pc[c] = "send_initial"
  /\ cstate[c] # "stalled"
  /\ Head(pending[c]) = c
  /\ pending' = Dequeue(pending, c)
  /\ IF cstate[c] = "open"
     THEN /\ pc' = [pc EXCEPT ![c] = "receive"]
          /\ call' = [call EXCEPT ![c] = NoCall]
          /\ UNCHANGED <<active_connections, user_location, vehicles, exc, cstate, sent, gen>>
     ELSE IF e = 1
          THEN disconnect(c)
          ELSE /\ HandlerRaise(c, "TransportError")
               /\ call' = Disturb([call EXCEPT ![c] = NoCall], c)
               /\ UNCHANGED <<active_connections, user_location, vehicles, sent, gen>>

\* `await websocket.receive_text()` raises WebSocketDisconnect
RecvDisconnect(c) ==
  /\ pc[c] = "receive"
  /\ cstate[c] = "closed"
  /\ disconnect(c)
  /\ UNCHANGED pending

LocationUpdated(vs, loc) ==
  [type |-> "location_updated", vehicles |-> Snapshot(vs), user_location |-> loc]

\* `await websocket.receive_text()` returns payload m; the body of the while
\* loop up to its next await, with random draws from D
Receive(c, m, D) ==
  /\ pc[c] = "receive"
  /\ cstate[c] = "open"
  /\ sent[c] < MaxSent
  /\ sent' = [sent EXCEPT ![c] = @ + 1]
  /\ IF m.kind = "garbage" \/ m.kind = "nonobject"
     THEN \* json.loads raises JSONDecodeError; message.get raises AttributeError
          /\ HandlerRaise(c, IF m.kind = "garbage" THEN "JSONDecodeError"
                                                   ELSE "AttributeError")
          /\ call' = Disturb(call, c)
          /\ UNCHANGED <<active_connections, user_location, vehicles, pending, gen>>
     ELSE IF m.type = "user_location" /\ Truthy(m.lat) /\ Truthy(m.lng)
     THEN /\ user_location' = [lat |-> m.lat, lng |-> m.lng]
          /\ IF IsNum(m.lat) /\ IsNum(m.lng)
             THEN /\ vehicles' \in create_vehicles_around_location(m.lat.n, m.lng.n, FleetCount, D)
                  /\ LET f == BeginBroadcast(LocationUpdated(vehicles', user_location'),
                                             active_connections)
                     IN /\ call' = [call EXCEPT ![c] = f]
                        /\ pending' = Enqueue(pending, f, c)
                        /\ gen' = GenCall([gen EXCEPT !.fleet = @ + 1], f, c,
                                          gen.fleet + 1)
                        /\ pc' = [pc EXCEPT ![c] = IF f.active THEN "broadcast"
                                                              ELSE "receive"]
                  /\ UNCHANGED <<active_connections, exc, cstate>>
             ELSE \* lat + distance * math.cos(angle) raises TypeError
                  /\ HandlerRaise(c, "TypeError")
                  /\ call' = Disturb(call, c)
                  /\ UNCHANGED <<active_connections, vehicles, pending, gen>>
     ELSE \* any other object is skipped and the loop awaits the next payload
          UNCHANGED <<active_connections, user_location, vehicles, pc, exc, cstate, call,
                      pending, gen>>

\* ---- ConnectionManager.broadcast: one pass of the for loop ----

\* `await connection.send_text(message)` of task t's call completes, the
\* except clause runs if it raised, and the loop goes on to its next await
SendDone(t) ==
  /\ pc[t] = "broadcast"
  /\ cstate[call[t].cur] # "stalled"
  /\ Head(pending[call[t].cur]) = t
  /\ LET f == call[t]
         c == f.cur
     IN IF cstate[c] = "open"
        THEN LET g == ForNext([f EXCEPT !.delivered = @ \cup {c}], active_connections)
             IN /\ call' = [call EXCEPT ![t] = g]
                /\ pending' = Enqueue(Dequeue(pending, c), g, t)
                /\ gen' = GenCall(GenDelivered(gen, f, t, c), g, t, gen.msg[t])
                /\ pc' = [pc EXCEPT ![t] = IF g.active THEN "broadcast"
                                                        ELSE AfterBroadcast(t)]
                /\ UNCHANGED <<active_connections, exc, cstate>>
        ELSE IF c \in Range(active_connections)
        THEN LET conns == ListRemove(active_connections, c)
                 g == ForNext(f, conns)
             IN /\ active_connections' = conns
                /\ call' = Disturb([call EXCEPT ![t] = g], t)
                /\ pending' = Enqueue(Dequeue(pending, c), g, t)
                /\ gen' = GenCall(gen, g, t, gen.msg[t])
                /\ pc' = [pc EXCEPT ![t] = IF g.active THEN "broadcast"
                                                        ELSE AfterBroadcast(t)]
                /\ UNCHANGED <<exc, cstate>>
        ELSE \* list.remove raises ValueError inside the except clause
             /\ call' = Disturb([call EXCEPT ![t] = NoCall], t)
             /\ pending' = Dequeue(pending, c)
             /\ gen' = GenCall(gen, NoCall, t, 0)
             /\ pc' = [pc EXCEPT ![t] = "raised"]
             /\ exc' = [exc EXCEPT ![t] = "ValueError"]
             /\ cstate' = [u \in Chan |-> IF u = t THEN "closed" ELSE cstate[u]]
             /\ UNCHANGED active_connections
  /\ UNCHANGED <<user_location, vehicles, sent>>

\* ---- vehicle_simulation ----

VehicleUpdate(vs) ==
  [type |-> "vehicle_update", vehicles |-> Snapshot(vs), user_location |-> NoLoc]

\* a tick that builds vehicles_data before the loop over the vehicles
SimTick_SnapshotFirst(D) ==
  /\ pc[Sim] = "sleep"
  /\ IF IsNum(user_location.lat) /\ IsNum(user_location.lng)
     THEN /\ \E dr \in [1..Len(vehicles) -> D.perturb \X D.respeed \X D.restatus] :
               vehicles' = [i \in 1..Len(vehicles) |->
                              update_position(vehicles[i], user_location,
                                              dr[i][1], dr[i][2], dr[i][3])]
          /\ LET f == BeginBroadcast(VehicleUpdate(vehicles), active_connections)
             IN /\ call' = [call EXCEPT ![Sim] = f]
                /\ pending' = Enqueue(pending, f, Sim)
                /\ gen' = GenCall(gen, f, Sim, gen.fleet)
                /\ pc' = [pc EXCEPT ![Sim] = IF f.active THEN "broadcast" ELSE "sleep"]
          /\ UNCHANGED exc
     ELSE \* new_lat - user_location["lat"] raises TypeError in the first
          \* vehicle, after its direction was perturbed
          /\ \E d \in D.perturb :
               vehicles' = [vehicles EXCEPT ![1].direction = PyMod360(@ + d)]
          /\ pc' = [pc EXCEPT ![Sim] = "raised"]
          /\ exc' = [exc EXCEPT ![Sim] = "TypeError"]
          /\ UNCHANGED <<call, pending, gen>>
  /\ UNCHANGED <<active_connections, user_location, cstate, sent>>

\* one iteration of `while True` from the end of asyncio.sleep to the next
\* await, with random draws from D
SimTick(D) ==
  /\ pc[Sim] = "sleep"
  /\ IF IsNum(user_location.lat) /\ IsNum(user_location.lng)
     THEN /\ \E dr \in [1..Len(vehicles) -> D.perturb \X D.respeed \X D.restatus] :
               vehicles' = [i \in 1..Len(vehicles) |->
                              update_position(vehicles[i], user_location,
                                              dr[i][1], dr[i][2], dr[i][3])]
          /\ LET f == BeginBroadcast(VehicleUpdate(vehicles'), active_connections)
             IN /\ call' = [call EXCEPT ![Sim] = f]
                /\ pending' = Enqueue(pending, f, Sim)
                /\ gen' = GenCall(gen, f, Sim, gen.fleet)
                /\ pc' = [pc EXCEPT ![Sim] = IF f.active THEN "broadcast" ELSE "sleep"]
          /\ UNCHANGED exc
     ELSE \* new_lat - user_location["lat"] raises TypeError in the first
          \* vehicle, after its direction was perturbed
          /\ \E d \in D.perturb :
               vehicles' = [vehicles EXCEPT ![1].direction = PyMod360(@ + d)]
          /\ pc' = [pc EXCEPT ![Sim] = "raised"]
          /\ exc' = [exc EXCEPT ![Sim] = "TypeError"]
          /\ UNCHANGED <<call, pending, gen>>
  /\ UNCHANGED <<active_connections, user_location, cstate, sent>>

Next ==
  \/ \E c \in Chan : ClientConnect(c)
  \/ \E c \in Chan : ClientClose(c)
  \/ \E c \in Chan : AcceptDone(c)
  \/ \E c \in Chan, e \in {0, 1} : InitialSent(c, e)
  \/ \E c \in Chan : RecvDisconnect(c)
  \/ \E c \in Chan, m \in Messages : Receive(c, m, FixedDraws)
  \/ \E t \in Tasks : SendDone(t)
  \/ SimTick(FixedDraws)

Spec == Init /\ [][Next]_vars

\* the event loop resumes every task whose await has completed; what the
\* clients do (connect, send, close) is not scheduled by the program
FairSpec ==
  /\ Spec
  /\ WF_vars(SimTick(FixedDraws))
  /\ \A t \in Tasks : WF_vars(SendDone(t))
  /\ \A c \in Chan : WF_vars(AcceptDone(c))
  /\ \A c \in Chan : WF_vars(\E e \in {0, 1} : InitialSent(c, e))
  /\ \A c \in Chan : WF_vars(RecvDisconnect(c))

\* ---- the program with clients that may stop reading ----

StallNext ==
  \/ Next
  \/ \E c \in Chan : ClientStall(c)

StallSpec ==
  /\ Init /\ [][StallNext]_vars
  /\ WF_vars(SimTick(FixedDraws))
  /\ \A t \in Tasks : WF_vars(SendDone(t))
  /\ \A c \in Chan : WF_vars(AcceptDone(c))
  /\ \A c \in Chan : WF_vars(\E e \in {0, 1} : InitialSent(c, e))
  /\ \A c \in Chan : WF_vars(RecvDisconnect(c))

\* ---- one vehicle alone: no client ever connects, every draw is possible ----
\* (update_position reads and writes no other vehicle)

\* numeric reference locations: the initial one and one set by a client
KinLocations ==
  {[lat |-> Num(DefaultLat), lng |-> Num(DefaultLng)]} \cup
  {[lat |-> Num(n), lng |-> Num(n)] : n \in NumericInputs \ {0}}

\* a vehicle as create_vehicles_around_location builds it around the location
KinInit ==
  /\ active_connections = <<>>
  /\ user_location \in KinLocations
  /\ vehicles \in create_vehicles_around_location(user_location.lat.n, user_location.lng.n,
                                                  1, AllDraws)
  /\ pc = [t \in Tasks |-> IF t = Sim THEN "sleep" ELSE "idle"]
  /\ exc = [t \in Tasks |-> "none"]
  /\ cstate = [c \in Chan |-> "new"]
  /\ call = [t \in Tasks |-> NoCall]
  /\ sent = [c \in Chan |-> 0]
  /\ pending = [c \in Chan |-> <<>>]
  /\ gen = [fleet |-> 0, msg |-> [t \in Tasks |-> 0], seen |-> [c \in Chan |-> 0]]

KinNext == SimTick(AllDraws)

KinSpec == KinInit /\ [][KinNext]_vars

\* ---- create_vehicles_around_location alone ----

\* two draws of the offset, to build fleets that differ
GenDraws == [FixedDraws EXCEPT !.offs = {<<0, 0>>, <<RadiusDeg, 0>>}]

\* vehicles = create_vehicles_around_location(lat, lng, count), whatever the
\* fleet was before
Generate(loc, count) ==
  /\ vehicles' \in create_vehicles_around_location(loc.lat.n, loc.lng.n, count, GenDraws)
  /\ UNCHANGED <<active_connections, user_location, pc, exc, cstate, call, sent, pending, gen>>

GenNext == \E loc \in KinLocations, count \in 0..MaxCount : Generate(loc, count)

GenSpec == Init /\ [][GenNext]_vars

TypeOK ==
  /\ Range(active_connections) \subseteq Chan
  /\ \A t \in Tasks : pc[t] \in {"idle", "accept", "send_initial", "receive",
                                 "broadcast", "sleep", "returned", "raised"}
  /\ \A t \in Tasks : call[t].active <=> pc[t] = "broadcast"
  /\ \A c \in Chan : sent[c] \in 0..MaxSent
  /\ \A c \in Chan :
       \A t \in Tasks :
         Cardinality({k \in 1..Len(pending[c]) : pending[c][k] = t})
           = IF \/ pc[t] = "broadcast" /\ call[t].cur = c
                \/ pc[t] = "send_initial" /\ t = c
             THEN 1 ELSE 0
  /\ Len(vehicles) = FleetCount

\* ---- the broadcast call of task t as seen at the step in which it returns ----

\* this step is the normal return of task t's broadcast call
Returns(t) == call[t].active /\ ~call'[t].active /\ pc'[t] # "raised"

\* the channels registered at call start whose transport is closed
Dead(t) == {c \in Range(call[t].start) : cstate[c] # "open"}

\* the channels that got the message of task t's call, its last send included
DeliveredAtReturn(t) ==
  call[t].delivered \cup (IF cstate[call[t].cur] = "open" THEN {call[t].cur} ELSE {})

\* C1: in a broadcast call that no other task disturbs and in which exactly one
\* registered channel fails, every other channel registered at call start
\* receives the message before the call returns.
C1_OthersReceive ==
  [][\A t \in Tasks :
       (Returns(t) /\ call[t].quiet /\ Cardinality(Dead(t)) = 1)
         => DeliveredAtReturn(t) = Range(call[t].start) \ Dead(t)]_vars

\* C2: when a broadcast call that no other task disturbs returns, the
\* registered channels are exactly those registered at call start minus the
\* ones whose sends fail.
C2_PrunesExactlyTheDead ==
  [][\A t \in Tasks :
       (Returns(t) /\ call[t].quiet)
         => Range(active_connections') = Range(call[t].start) \ Dead(t)]_vars

\* C3: disconnect of a channel that is not registered leaves
\* active_connections unchanged and raises nothing: the session handler that
\* called it after WebSocketDisconnect returns normally.
C3_DisconnectIdempotent ==
  [][\A c \in Chan :
       (RecvDisconnect(c) /\ c \notin Range(active_connections))
         => (active_connections' = active_connections /\ pc'[c] = "returned")]_vars

\* C4: no step of a broadcast call ends the calling task with an exception.
C4_BroadcastNeverRaises ==
  [][\A t \in Tasks : pc[t] = "broadcast" => pc'[t] # "raised"]_vars

\* C5: the vehicle_simulation task is never ended by an exception.
C5_SimulationNeverEnds == pc[Sim] # "raised"

\* payloads the session handler is to ignore: not JSON, not an object, or a
\* user_location whose lat or lng is missing or not a number
BadLocations ==
  {m \in Messages : m.type = "user_location" /\ (~IsNum(m.lat) \/ ~IsNum(m.lng))}

Malformed == {m \in Messages : m.kind # "object"} \cup BadLocations

\* C6: after a malformed payload the session handler is back in its receive
\* loop, the connection is open and the channel registration is as before.
C6_MalformedIgnored ==
  [][\A c \in Chan, m \in Malformed :
       Receive(c, m, FixedDraws)
         => /\ pc'[c] = "receive"
            /\ cstate'[c] = "open"
            /\ active_connections' = active_connections]_vars

\* C7: a user_location payload whose lat or lng is missing or not a number
\* changes neither user_location nor vehicles and starts no broadcast.
C7_BadLocationNoEffect ==
  [][\A c \in Chan, m \in BadLocations :
       Receive(c, m, FixedDraws)
         => /\ user_location' = user_location
            /\ vehicles' = vehicles
            /\ call'[c] = call[c]]_vars

NumericLocations ==
  {m \in Messages : m.type = "user_location" /\ IsNum(m.lat) /\ IsNum(m.lng)}

\* C8: every user_location payload with numeric lat and lng sets user_location
\* to (lat, lng), installs a fleet generated around it and starts a
\* location_updated broadcast over all registered channels.
C8_NumericLocationApplied ==
  [][\A c \in Chan, m \in NumericLocations :
       Receive(c, m, FixedDraws)
         => /\ user_location' = [lat |-> m.lat, lng |-> m.lng]
            /\ vehicles' \in create_vehicles_around_location(m.lat.n, m.lng.n, FleetCount, AllDraws)
            /\ call'[c] = BeginBroadcast(LocationUpdated(vehicles', user_location'),
                                         active_connections)]_vars

\* C9: a channel whose client has disconnected or whose session handler has
\* ended is eventually out of active_connections for good.
C9_DeadChannelsLeave ==
  \A c \in Chan :
    [](cstate[c] = "closed" => <>[](c \notin Range(active_connections)))

\* C10: every vehicle is within max_distance of user_location.
C10_FleetWithinBound ==
  \A i \in 1..Len(vehicles) :
    /\ IsNum(user_location.lat)
    /\ IsNum(user_location.lng)
    /\ ~TooFar(vehicles[i].lat, vehicles[i].lng, user_location)

\* C11: the heading of every vehicle is at least 0 and below 360, at creation
\* and after any number of update_position calls.
C11_HeadingInRange ==
  \A i \in 1..Len(vehicles) :
    0 <= vehicles[i].direction /\ vehicles[i].direction < 360

\* the number that the digits of an id spell
IdNumber(id) == 100 * id[1] + 10 * id[2] + id[3]

\* C12: create_vehicles_around_location(lat, lng, count) returns count
\* vehicles, and the id of the i-th is three digits that spell i, whatever
\* the fleet was before.
C12_CountAndIds ==
  [][\A loc \in KinLocations, count \in 0..MaxCount :
       Generate(loc, count) =>
         /\ Len(vehicles') = count
         /\ \A i \in 1..count :
              /\ Len(vehicles'[i].id) = 3
              /\ \A k \in 1..3 : vehicles'[i].id[k] \in 0..9
              /\ IdNumber(vehicles'[i].id) = i]_vars

\* a fleet of MaxCount vehicles, more than the program had at its start
C12_Witness ==
  /\ Len(vehicles) = MaxCount
  /\ IdNumber(vehicles[MaxCount].id) = MaxCount
  /\ IdNumber(vehicles[1].id) = 1

\* C13: every step that replaces user_location installs, in the same step, a
\* fleet that create_vehicles_around_location builds around the new location:
\* no state has the new location with the old fleet.
C13_RegenerationAtomic ==
  [][user_location' # user_location =>
       /\ IsNum(user_location'.lat)
       /\ IsNum(user_location'.lng)
       /\ vehicles' \in create_vehicles_around_location(user_location'.lat.n,
                                                         user_location'.lng.n,
                                                         FleetCount, AllDraws)]_vars

\* C14: the message of a tick is the snapshot of the fleet after every vehicle
\* was advanced in that tick, and every send of the tick's broadcast carries
\* that same message, whatever other tasks do while the broadcast is suspended.
C14_SameSnapshot ==
  [][/\ (SimTick(FixedDraws) /\ call'[Sim].active) =>
          /\ call'[Sim].msg.type = "vehicle_update"
          /\ Len(call'[Sim].msg.vehicles) = Len(vehicles)
          /\ \A i \in 1..Len(vehicles) :
               \E d \in AllDraws.perturb, sp \in AllDraws.respeed, st \in AllDraws.restatus :
                 call'[Sim].msg.vehicles[i]
                   = to_dict(update_position(vehicles[i], user_location, d, sp, st))
     /\ (call[Sim].active /\ call'[Sim].active) => call'[Sim].msg = call[Sim].msg]_vars

\* the broadcast of a tick has reached one channel and is suspended in the send
\* to another, and a location update has replaced the fleet meanwhile
C14_Witness ==
  /\ call[Sim].active
  /\ call[Sim].delivered # {}
  /\ call[Sim].msg.vehicles # Snapshot(vehicles)
  /\ user_location # [lat |-> Num(DefaultLat), lng |-> Num(DefaultLng)]

\* C15: the broadcast call of a tick always ends, so that the simulation goes
\* on to its next tick, also when a client has stopped reading.
C15_StallDoesNotBlock == (pc[Sim] = "broadcast") ~> (pc[Sim] # "broadcast")

\* C16: a session calls send_text for initial_data once, on its own connection
\* and outside any broadcast, and no broadcast message is delivered to a
\* connection before the initial_data of its session.
C16_InitialDataFirst ==
  [][/\ \A t \in Tasks :
          (SendDone(t) /\ cstate[call[t].cur] = "open") =>
            /\ call[t].msg.type # "initial_data"
            /\ pc[call[t].cur] \notin {"idle", "accept", "send_initial"}
     /\ \A c \in Chan :
          /\ pc'[c] = "send_initial" =>
               /\ pc[c] \in {"accept", "send_initial"}
               /\ call'[c].msg.type = "initial_data"
               /\ Head(pending'[c]) = c
          /\ (pc[c] = "accept" /\ pc'[c] \notin {"accept", "raised"}) =>
               pc'[c] = "send_initial"]_vars

\* the vehicle_update of a tick waits on a new connection behind the
\* initial_data of its session
C16_Witness == \E c \in Chan : pending[c] = <<c, Sim>>

\* C17: while the broadcast call of a task is in progress, no other task has a
\* broadcast call in progress, and a step of another task leaves
\* active_connections as it is.
C17_RegistryExclusive ==
  [][\A t \in Tasks :
       call[t].active =>
         /\ \A u \in Tasks \ {t} : ~call[u].active
         /\ (call'[t].active /\ call'[t].it = call[t].it) =>
              active_connections' = active_connections]_vars

Dist2(lat, lng, ref) ==
  (lat - ref.lat.n) * (lat - ref.lat.n) + (lng - ref.lng.n) * (lng - ref.lng.n)

\* C19: in a tick, every vehicle gets a perturbed heading h; if the tentative
\* position along h is farther than max_distance from user_location, the
\* position stays and the heading becomes (h + 180) mod 360; otherwise the
\* position becomes the tentative position and the heading becomes h.
C19_ReverseAndSkip ==
  [][SimTick(AllDraws) =>
       \A i \in 1..Len(vehicles) :
         \E d \in AllDraws.perturb :
           LET v == vehicles[i]
               w == vehicles'[i]
               h == PyMod360(v.direction + d)
               tent_lat == v.lat + (v.speed \div SpeedScale) * Cos2(h)
               tent_lng == v.lng + (v.speed \div SpeedScale) * Sin2(h)
           IN IF Dist2(tent_lat, tent_lng, user_location) > MaxDistance * MaxDistance
              THEN w.lat = v.lat /\ w.lng = v.lng /\ w.direction = (h + 180) % 360
              ELSE w.lat = tent_lat /\ w.lng = tent_lng /\ w.direction = h]_vars

\* a vehicle that ticks have moved out of the radius of its creation, and
\* for which a step straight ahead would pass max_distance
C19_Witness ==
  \E i \in 1..Len(vehicles) :
    LET v == vehicles[i]
    IN /\ Dist2(v.lat, v.lng, user_location) > RadiusDeg * RadiusDeg
       /\ Dist2(v.lat + (v.speed \div SpeedScale) * Cos2(v.direction),
                v.lng + (v.speed \div SpeedScale) * Sin2(v.direction),
                user_location) > MaxDistance * MaxDistance

\* C20: a tick, and the building of initial_data, leave the fleet with the
\* same number of vehicles and the same ids in the same order, and a tick
\* leaves user_location as it is.
C20_TickKeepsMembership ==
  [][/\ SimTick(FixedDraws) =>
          /\ Len(vehicles') = Len(vehicles)
          /\ \A i \in 1..Len(vehicles) : vehicles'[i].id = vehicles[i].id
          /\ user_location' = user_location
     /\ \A c \in Chan : AcceptDone(c) => vehicles' = vehicles]_vars

\* ticks have moved the fleet away from where it was created, and a session
\* has built its initial_data from it
C20_Witness ==
  /\ \E c \in Chan : pc[c] = "send_initial" /\ call[c].msg.vehicles = Snapshot(vehicles)
  /\ \E i \in 1..Len(vehicles) : vehicles[i].lat # user_location.lat.n
  /\ \A i \in 1..Len(vehicles) : IdNumber(vehicles[i].id) = i
====
